---- MODULE Spec2Model ----
(***************************************************************************)
(* A model of the SysML v2 Python client (src/src/sysmlv2_client):         *)
(* construction of SysMLV2Client, the request executor _request with its   *)
(* classification of HTTP responses, and the public operations built on    *)
(* it.  Strings are sequences of characters (or of lexical tokens, for     *)
(* response bodies), JSON values are tagged records, exceptions are class  *)
(* names with the base classes the source declares.                        *)
(***************************************************************************)
EXTENDS Integers, Sequences, FiniteSets, TLC

VARIABLES
    args,     \* the arguments the constructor is (or was) called with
    client,   \* the SysMLV2Client instance: NoClient before/without construction
    last      \* the last call: operation, request issued, response, outcome

vars == <<args, client, last>>

(***************************************************************************)
(* Bounds                                                                  *)
(***************************************************************************)
\* longest base_url the constructor specification draws
MaxUrlLen == 3

(***************************************************************************)
(* Strings: str.lower, str.startswith, str.rstrip                          *)
(***************************************************************************)
Str(n, Alphabet) == UNION { [1..k -> Alphabet] : k \in 0..n }

LowerChar(c) ==
    CASE c = "B" -> "b"
      [] c = "E" -> "e"
      [] c = "A" -> "a"
      [] c = "R" -> "r"
      [] c = "T" -> "t"
      [] OTHER   -> c

lower(s) == [i \in 1..Len(s) |-> LowerChar(s[i])]

startswith(s, prefix) ==
    /\ Len(s) >= Len(prefix)
    /\ SubSeq(s, 1, Len(prefix)) = prefix

RECURSIVE rstrip(_, _)
\* a variant of rstrip that removes a single trailing character
rstrip_once(s, ch) ==
    IF s # <<>> /\ s[Len(s)] = ch THEN SubSeq(s, 1, Len(s) - 1) ELSE s

rstrip(s, ch) ==
    IF s # <<>> /\ s[Len(s)] = ch
    THEN rstrip(SubSeq(s, 1, Len(s) - 1), ch)
    ELSE s

\* a variant of the prefix without its trailing space
BearerPrefix_nospace == <<"b", "e", "a", "r", "e", "r">>

\* "bearer " : the prefix __init__ compares the lowered token with
BearerPrefix == <<"b", "e", "a", "r", "e", "r", " ">>

(***************************************************************************)
(* Exception classes (exceptions.py, and the ones the code catches)        *)
(***************************************************************************)
Bases ==
    [c \in { "Exception", "ValueError", "SysMLV2Error", "SysMLV2AuthError",
             "SysMLV2APIError", "SysMLV2NotFoundError",
             "SysMLV2BadRequestError", "SysMLV2ConflictError",
             "RequestException", "ConnectionError", "JSONDecodeError",
             "RequestsJSONDecodeError" } |->
        CASE c = "Exception"               -> {}
          [] c = "ValueError"              -> {"Exception"}
          [] c = "SysMLV2Error"            -> {"Exception"}
          [] c = "SysMLV2AuthError"        -> {"SysMLV2Error"}
          [] c = "SysMLV2APIError"         -> {"SysMLV2Error"}
          [] c = "SysMLV2NotFoundError"    -> {"SysMLV2APIError"}
          [] c = "SysMLV2BadRequestError"  -> {"SysMLV2APIError"}
          [] c = "SysMLV2ConflictError"    -> {"SysMLV2APIError"}
          [] c = "RequestException"        -> {"Exception"}
          [] c = "ConnectionError"         -> {"RequestException"}
          [] c = "JSONDecodeError"         -> {"ValueError"}
          [] c = "RequestsJSONDecodeError" -> {"RequestException", "JSONDecodeError"}]

RECURSIVE issubclass(_, _)
issubclass(c, d) ==
    \/ c = d
    \/ \E b \in Bases[c] : issubclass(b, d)

(***************************************************************************)
(* JSON values and json.loads over a token sequence                        *)
(***************************************************************************)
JNull      == [t |-> "null"]
JNum(n)    == [t |-> "num", v |-> n]
JStr(s)    == [t |-> "str", v |-> s]
JArr(xs)   == [t |-> "arr", v |-> xs]
JObj(f)    == [t |-> "obj", v |-> f]
EmptyDict  == JObj(<<>>)
EmptyList  == JArr(<<>>)
PyNone     == JNull

StringLit ==
    ("\"elements\"" :> "elements") @@ ("\"id\"" :> "id") @@
    ("\"p1\"" :> "p1") @@ ("\"name\"" :> "name") @@ ("\"x\"" :> "x")

NumTok == {"1"}

ParseFail == [ok |-> FALSE, val |-> JNull, next |-> 0]
ParseOk(v, n) == [ok |-> TRUE, val |-> v, next |-> n]

RECURSIVE ParseValue(_, _), ParseElems(_, _, _), ParseMembers(_, _, _)
ParseValue(s, i) ==
    IF i > Len(s) THEN ParseFail
    ELSE LET tk == s[i] IN
         CASE tk = "null" -> ParseOk(JNull, i + 1)
           [] tk \in NumTok -> ParseOk(JNum(tk), i + 1)
           [] tk \in DOMAIN StringLit -> ParseOk(JStr(StringLit[tk]), i + 1)
           [] tk = "[" ->
                IF i + 1 <= Len(s) /\ s[i + 1] = "]"
                THEN ParseOk(EmptyList, i + 2)
                ELSE ParseElems(s, i + 1, <<>>)
           [] tk = "{" ->
                IF i + 1 <= Len(s) /\ s[i + 1] = "}"
                THEN ParseOk(EmptyDict, i + 2)
                ELSE ParseMembers(s, i + 1, <<>>)
           [] OTHER -> ParseFail

ParseElems(s, i, acc) ==
    LET r == ParseValue(s, i) IN
    IF ~r.ok \/ r.next > Len(s) THEN ParseFail
    ELSE IF s[r.next] = "," THEN ParseElems(s, r.next + 1, Append(acc, r.val))
    ELSE IF s[r.next] = "]" THEN ParseOk(JArr(Append(acc, r.val)), r.next + 1)
    ELSE ParseFail

ParseMembers(s, i, acc) ==
    IF i + 1 > Len(s) \/ s[i] \notin DOMAIN StringLit \/ s[i + 1] # ":"
    THEN ParseFail
    ELSE LET r   == ParseValue(s, i + 2)
             \* a repeated key keeps the last value, as a Python dict does
             new == (StringLit[s[i]] :> r.val) @@ acc
         IN  IF ~r.ok \/ r.next > Len(s) THEN ParseFail
             ELSE IF s[r.next] = "," THEN ParseMembers(s, r.next + 1, new)
             ELSE IF s[r.next] = "}" THEN ParseOk(JObj(new), r.next + 1)
             ELSE ParseFail

\* json.loads / Response.json(): the whole text must be one JSON value
json_loads(text) ==
    LET r == ParseValue(text, 1) IN
    IF r.ok /\ r.next = Len(text) + 1
    THEN [ok |-> TRUE, val |-> r.val]
    ELSE [ok |-> FALSE, val |-> JNull]


RECURSIVE json_dumps(_), DumpItems(_), DumpMembers(_)
TokOfStr(s) == CHOOSE tk \in DOMAIN StringLit : StringLit[tk] = s

\* json.dumps: the token sequence of a value
json_dumps(x) ==
    CASE x.t = "null" -> <<"null">>
      [] x.t = "num"  -> <<x.v>>
      [] x.t = "str"  -> <<TokOfStr(x.v)>>
      [] x.t = "arr"  -> <<"[">> \o DumpItems(x.v) \o <<"]">>
      [] x.t = "obj"  -> <<"{">> \o DumpMembers(x.v) \o <<"}">>

DumpItems(xs) ==
    IF xs = <<>> THEN <<>>
    ELSE json_dumps(Head(xs))
         \o (IF Len(xs) > 1 THEN <<",">> \o DumpItems(Tail(xs)) ELSE <<>>)

DumpMembers(f) ==
    IF DOMAIN f = {} THEN <<>>
    ELSE LET k    == CHOOSE j \in DOMAIN f : TRUE
             rest == [j \in DOMAIN f \ {k} |-> f[j]]
         IN  <<TokOfStr(k), ":">> \o json_dumps(f[k])
             \o (IF DOMAIN rest # {} THEN <<",">> \o DumpMembers(rest) ELSE <<>>)

\* Python truth value of a request body argument (None, dict, list)
truthy(x) ==
    CASE x.t = "null" -> FALSE
      [] x.t = "obj"  -> DOMAIN x.v # {}
      [] x.t = "arr"  -> x.v # <<>>
      [] OTHER        -> TRUE

(***************************************************************************)
(* SysMLV2Client.__init__                                                  *)
(***************************************************************************)
NoClient == [exists |-> FALSE]

\* requests.Session(): the headers of a new session that matter here
DefaultHeaders ==
    [Authorization |-> <<>>, Content_Type |-> "", Accept |-> "*/*"]

\* dict.update: every key of h replaces the session's value
HeadersUpdate(session_headers, h) ==
    [session_headers EXCEPT !.Authorization = h.Authorization,
                            !.Content_Type  = h.Content_Type,
                            !.Accept        = h.Accept]

\* a variant of __init__ that leaves the session's headers as they were
SysMLV2Client_init_noUpdate(base_url, bearer_token) ==
    IF base_url = <<>>
    THEN [raised |-> "ValueError", message |-> "base_url cannot be empty.",
          client |-> [exists |-> FALSE], nreq |-> 0]
    ELSE IF bearer_token = <<>> \/ ~startswith(lower(bearer_token), BearerPrefix)
    THEN [raised |-> "ValueError",
          message |-> "bearer_token must be provided and start with 'Bearer '.",
          client |-> [exists |-> FALSE], nreq |-> 0]
    ELSE LET headers == [Authorization |-> bearer_token,
                         Content_Type  |-> "application/json",
                         Accept        |-> "application/json"]
         IN  [raised |-> "none", message |-> "",
              client |-> [exists        |-> TRUE,
                          base_url      |-> rstrip(base_url, "/"),
                          _bearer_token |-> bearer_token,
                          _headers      |-> headers,
                          _session      |-> [headers |-> DefaultHeaders]],
              nreq |-> 0]

\* the result of calling the constructor: the exception it raises ("none"
\* when it returns), the instance it leaves, the HTTP requests it issued
SysMLV2Client_init(base_url, bearer_token) ==
    IF base_url = <<>>
    THEN [raised |-> "ValueError", message |-> "base_url cannot be empty.",
          client |-> NoClient, nreq |-> 0]
    ELSE IF bearer_token = <<>> \/ ~startswith(lower(bearer_token), BearerPrefix)
    THEN [raised |-> "ValueError",
          message |-> "bearer_token must be provided and start with 'Bearer '.",
          client |-> NoClient, nreq |-> 0]
    ELSE LET headers == [Authorization |-> bearer_token,
                         Content_Type  |-> "application/json",
                         Accept        |-> "application/json"]
         IN  [raised |-> "none", message |-> "",
              client |-> [exists        |-> TRUE,
                          base_url      |-> rstrip(base_url, "/"),
                          _bearer_token |-> bearer_token,
                          _headers      |-> headers,
                          _session      |-> [headers |->
                                                HeadersUpdate(DefaultHeaders, headers)]],
              nreq |-> 0]


(***************************************************************************)
(* Outcomes of a call: a returned value or a raised exception              *)
(***************************************************************************)
Absent   == <<"<absent>">>
NoValue  == [t |-> "<no value>"]
NoDetail == [src |-> "none", json |-> JNull, text |-> Absent]
\* cause: the exception a "raise ... from e" chains ("none": no cause)
NoMsg    == [template |-> "", status |-> -1, method |-> "", endpoint |-> Absent,
             url |-> Absent, text |-> Absent, detail |-> NoDetail,
             cause |-> "none"]

Return(x) ==
    [kind |-> "return", cls |-> "none", value |-> x, status_code |-> -1,
     msg |-> NoMsg]

\* status_code is the attribute SysMLV2APIError.__init__ sets (-1: no such attribute)
Raise(c, code, m) ==
    [kind |-> "raise", cls |-> c, value |-> NoValue, status_code |-> code,
     msg |-> m]

SysMLV2AuthError(m)       == Raise("SysMLV2AuthError", -1, m)
SysMLV2APIError(code, m)  == Raise("SysMLV2APIError", code, [m EXCEPT !.status = code])
SysMLV2NotFoundError(m)   == Raise("SysMLV2NotFoundError", 404, [m EXCEPT !.status = 404])
SysMLV2BadRequestError(m) == Raise("SysMLV2BadRequestError", 400, [m EXCEPT !.status = 400])
SysMLV2ConflictError(m)   == Raise("SysMLV2ConflictError", 409, [m EXCEPT !.status = 409])
SysMLV2Error(m)           == Raise("SysMLV2Error", -1, m)

(***************************************************************************)
(* SysMLV2Client._request                                                  *)
(***************************************************************************)
NoBody == [sent |-> FALSE, body |-> <<>>]

\* a variant of the except clauses whose first clause catches every exception
ExceptClauses_catchAll(o, url, response) ==
    IF o.kind = "raise"
    THEN Raise("SysMLV2Error", -1,
               [NoMsg EXCEPT !.template = "Network error during request to",
                             !.url = url, !.cause = o.cls])
    ELSE o

\* the two except clauses of _request, in source order
ExceptClauses(o, url, response) ==
    IF o.kind = "raise" /\ issubclass(o.cls, "RequestException")
    THEN SysMLV2Error([NoMsg EXCEPT !.template = "Network error during request to",
                                    !.url = url, !.cause = o.cls])
    ELSE IF o.kind = "raise" /\ issubclass(o.cls, "JSONDecodeError")
    THEN SysMLV2Error([NoMsg EXCEPT !.template = "Failed to decode JSON response from",
                                    !.url = url, !.text = response.text,
                                    !.cause = o.cls])
    ELSE o

\* The try block is a chain of checks, each returning or raising, else falling
\* through to the next; the definitions below follow it from its last statement
\* back to its first.

\* a variant of Success without the empty-body test
Success_only204(method, endpoint, expected_status, response) ==
    LET parsed == json_loads(response.text) IN
    IF response.status_code = 204
    THEN Return(EmptyDict)
    ELSE IF parsed.ok
    THEN Return(parsed.val)
    ELSE Raise(response.json_exc, -1, NoMsg)

\* lines 108-113: the status is the expected one
Success(method, endpoint, expected_status, response) ==
    LET parsed == json_loads(response.text) IN
    IF response.status_code = 204 \/ response.text = <<>>
    THEN Return(EmptyDict)
    ELSE IF parsed.ok
    THEN Return(parsed.val)
    ELSE Raise(response.json_exc, -1, NoMsg)

\* a variant of CheckExpected that reports the expected status
CheckExpected_reportsExpected(method, endpoint, expected_status, response) ==
    IF response.status_code # expected_status
    THEN SysMLV2APIError(expected_status,
                         [NoMsg EXCEPT !.template = "Unexpected status code for",
                                       !.method = method, !.endpoint = endpoint,
                                       !.text = response.text])
    ELSE Success(method, endpoint, expected_status, response)

\* lines 101-106
CheckExpected(method, endpoint, expected_status, response) ==
    IF response.status_code # expected_status
    THEN SysMLV2APIError(response.status_code,
                         [NoMsg EXCEPT !.template = "Unexpected status code for",
                                       !.method = method, !.endpoint = endpoint,
                                       !.text = response.text])
    ELSE Success(method, endpoint, expected_status, response)

\* a variant of CheckConflict that lets an expected 409 through
CheckConflict_afterExpected(method, endpoint, expected_status, response) ==
    IF response.status_code = 409 /\ response.status_code # expected_status
    THEN SysMLV2ConflictError([NoMsg EXCEPT !.template = "Conflict detected for",
                                            !.endpoint = endpoint,
                                            !.text = response.text])
    ELSE CheckExpected(method, endpoint, expected_status, response)

\* lines 98-99
CheckConflict(method, endpoint, expected_status, response) ==
    IF response.status_code = 409
    THEN SysMLV2ConflictError([NoMsg EXCEPT !.template = "Conflict detected for",
                                            !.endpoint = endpoint,
                                            !.text = response.text])
    ELSE CheckExpected(method, endpoint, expected_status, response)

\* a variant of CheckBadRequest without the inner except clause
CheckBadRequest_uncaught(method, endpoint, expected_status, response) ==
    LET parsed == json_loads(response.text) IN
    IF response.status_code = 400
    THEN IF parsed.ok
         THEN SysMLV2BadRequestError(
                  [NoMsg EXCEPT !.template = "Bad request for", !.endpoint = endpoint,
                                !.detail = [src |-> "json", json |-> parsed.val,
                                            text |-> Absent]])
         ELSE Raise(response.json_exc, -1, NoMsg)
    ELSE CheckConflict(method, endpoint, expected_status, response)

\* lines 91-97, with the inner try/except around response.json()
CheckBadRequest(method, endpoint, expected_status, response) ==
    LET parsed == json_loads(response.text) IN
    IF response.status_code = 400
    THEN IF parsed.ok
         THEN SysMLV2BadRequestError(
                  [NoMsg EXCEPT !.template = "Bad request for", !.endpoint = endpoint,
                                !.detail = [src |-> "json", json |-> parsed.val,
                                            text |-> Absent]])
         ELSE IF issubclass(response.json_exc, "JSONDecodeError")
         THEN SysMLV2BadRequestError(
                  [NoMsg EXCEPT !.template = "Bad request for", !.endpoint = endpoint,
                                !.detail = [src |-> "text", json |-> JNull,
                                            text |-> response.text]])
         ELSE Raise(response.json_exc, -1, NoMsg)
    ELSE CheckConflict(method, endpoint, expected_status, response)

\* a variant of CheckNotFound without the 404 test
CheckNotFound_missing(method, endpoint, expected_status, response) ==
    CheckBadRequest(method, endpoint, expected_status, response)

\* lines 89-90
CheckNotFound(method, endpoint, expected_status, response) ==
    IF response.status_code = 404
    THEN SysMLV2NotFoundError([NoMsg EXCEPT !.template = "Resource not found at",
                                            !.endpoint = endpoint,
                                            !.text = response.text])
    ELSE CheckBadRequest(method, endpoint, expected_status, response)

\* a variant of CheckAuth that tests for 401 alone
CheckAuth_only401(method, endpoint, expected_status, response) ==
    IF response.status_code = 401
    THEN SysMLV2AuthError([NoMsg EXCEPT !.template = "Authentication failed",
                                        !.status = response.status_code,
                                        !.text = response.text])
    ELSE CheckNotFound(method, endpoint, expected_status, response)

\* lines 86-88
CheckAuth(method, endpoint, expected_status, response) ==
    IF response.status_code = 401 \/ response.status_code = 403
    THEN SysMLV2AuthError([NoMsg EXCEPT !.template = "Authentication failed",
                                        !.status = response.status_code,
                                        !.text = response.text])
    ELSE CheckNotFound(method, endpoint, expected_status, response)

\* lines 77-113: session.request either raises (no response) or gives a response
TryBlock(method, endpoint, expected_status, response) ==
    IF response.failed
    THEN Raise("ConnectionError", -1, NoMsg)
    ELSE CheckAuth(method, endpoint, expected_status, response)

\* a variant of _request that tries a second time after a transport failure
_request_retry(self, method, endpoint, params, data, expected_status, response) ==
    LET url       == self.base_url \o endpoint
        json_data == IF truthy(data)
                     THEN [sent |-> TRUE, body |-> json_dumps(data)]
                     ELSE [sent |-> FALSE, body |-> <<>>]
    IN  [req  |-> [method |-> method, url |-> url, params |-> params,
                   data |-> json_data, headers |-> self._session.headers],
         nreq |-> IF response.failed THEN 2 ELSE 1,
         out  |-> ExceptClauses(TryBlock(method, endpoint, expected_status, response),
                                url, response)]

\* lines 73-118: one session.request call, no loop around it
_request(self, method, endpoint, params, data, expected_status, response) ==
    LET url       == self.base_url \o endpoint
        json_data == IF truthy(data)
                     THEN [sent |-> TRUE, body |-> json_dumps(data)]
                     ELSE NoBody
    IN  [req  |-> [method |-> method, url |-> url, params |-> params,
                   data |-> json_data, headers |-> self._session.headers],
         nreq |-> 1,
         out  |-> ExceptClauses(TryBlock(method, endpoint, expected_status, response),
                                url, response)]


(***************************************************************************)
(* The public operations                                                   *)
(***************************************************************************)
\* params=None, the default
NoParams == PyNone

\* get_projects: the isinstance chain applied to the value _request returned
NormalizeProjects(response_data) ==
    IF response_data.t = "arr" THEN response_data
    ELSE IF response_data.t = "obj"
    THEN IF "elements" \in DOMAIN response_data.v
         THEN response_data.v["elements"]
         ELSE EmptyList
    ELSE EmptyList

\* a variant of NormalizeOwned that looks under another key
NormalizeOwned_otherKey(response_data) ==
    IF response_data.t = "arr" THEN response_data
    ELSE IF response_data.t = "obj"
    THEN IF "owned" \in DOMAIN response_data.v
         THEN response_data.v["owned"]
         ELSE EmptyList
    ELSE EmptyList

\* get_owned_elements: the same chain, written out again in the source
NormalizeOwned(response_data) ==
    IF response_data.t = "arr" THEN response_data
    ELSE IF response_data.t = "obj"
    THEN IF "elements" \in DOMAIN response_data.v
         THEN response_data.v["elements"]
         ELSE EmptyList
    ELSE EmptyList

ElementsEndpoint(project_id, commit_id) ==
    <<"/projects/", project_id, "/commits/", commit_id, "/elements">>

ElementEndpoint(project_id, commit_id, element_id) ==
    <<"/projects/", project_id, "/commits/", commit_id, "/elements/", element_id>>

\* an exception raised by _request propagates; a returned value is normalized
get_projects(self, response) ==
    LET r == _request(self, "GET", <<"/projects">>, NoParams, PyNone, 200, response)
    IN  IF r.out.kind = "raise" THEN r
        ELSE [r EXCEPT !.out = Return(NormalizeProjects(r.out.value))]

\* a variant of create_project that expects 200
create_project_expects200(self, project_data, response) ==
    _request(self, "POST", <<"/projects">>, NoParams, project_data, 200, response)

create_project(self, project_data, response) ==
    _request(self, "POST", <<"/projects">>, NoParams, project_data, 201, response)

get_element(self, project_id, element_id, commit_id, response) ==
    _request(self, "GET", ElementEndpoint(project_id, commit_id, element_id),
             NoParams, PyNone, 200, response)

create_element(self, project_id, element_data, commit_id, response) ==
    _request(self, "POST", ElementsEndpoint(project_id, commit_id),
             NoParams, element_data, 201, response)

update_element(self, project_id, element_id, element_data, commit_id, response) ==
    _request(self, "PUT", ElementEndpoint(project_id, commit_id, element_id),
             NoParams, element_data, 200, response)

\* the value _request returned is dropped
delete_element(self, project_id, element_id, commit_id, response) ==
    LET r == _request(self, "DELETE",
                      ElementEndpoint(project_id, commit_id, element_id),
                      NoParams, PyNone, 204, response)
    IN  IF r.out.kind = "raise" THEN r ELSE [r EXCEPT !.out = Return(PyNone)]

get_owned_elements(self, project_id, element_id, commit_id, response) ==
    LET r == _request(self, "GET",
                      ElementEndpoint(project_id, commit_id, element_id)
                          \o <<"/owned">>,
                      NoParams, PyNone, 200, response)
    IN  IF r.out.kind = "raise" THEN r
        ELSE [r EXCEPT !.out = Return(NormalizeOwned(r.out.value))]

create_commit(self, project_id, commit_data, response) ==
    _request(self, "POST", <<"/projects/", project_id, "/commits">>,
             NoParams, commit_data, 201, response)

(***************************************************************************)
(* Inputs: constructor arguments, path parameters, bodies, responses       *)
(***************************************************************************)
BearerX      == <<"B", "e", "a", "r", "e", "r", " ", "x">>
Tokens ==
    { <<>>,
      BearerX,
      <<"b", "e", "a", "r", "e", "r", " ", "x">>,
      <<"B", "E", "A", "R", "E", "R", " ", "x">>,
      <<"B", "e", "a", "r", "e", "r", " ">>,
      <<"B", "e", "a", "r", "e", "r">>,
      <<"B", "e", "a", "r", "e", "r", "x">>,
      <<" ", "B", "e", "a", "r", "e", "r", " ", "x">>,
      <<"T", "o", "k", "e", "n", " ", "x">> }

UrlChars == {"h", "/"}

\* every constructor call the construction specification tries
CtorArgs == [base_url : Str(MaxUrlLen, UrlChars), bearer_token : Tokens]

\* the clients the request specification works with
ClientArgs ==
    { [base_url |-> <<"h", "/">>, bearer_token |-> BearerX],
      [base_url |-> <<"h">>,
       bearer_token |-> <<"b", "e", "a", "r", "e", "r", " ", "x">>] }

ProjectIds == {"p1"}
ElementIds == {"e1"}
CommitIds  == {"main"}

IdObject == JObj("id" :> JStr("p1"))

\* request bodies the callers pass
Datas == { EmptyDict, JObj("name" :> JStr("x")) }

\* response bodies, as token sequences
Bodies ==
    { <<>>,
      <<"{", "\"elements\"", ":", "[", "{", "\"id\"", ":", "\"p1\"", "}", "]", "}">>,
      <<"[", "{", "\"id\"", ":", "\"p1\"", "}", "]">>,
      <<"{", "\"id\"", ":", "\"p1\"", "}">>,
      <<"{", "\"elements\"", ":", "null", "}">>,
      <<"{", "\"elements\"", ":", "\"p1\"", "}">>,
      <<"{", "\"elements\"", ":", "{", "\"id\"", ":", "\"p1\"", "}", "}">>,
      <<"1">>,
      <<"null">>,
      <<"{", "\"elements\"", ":", "[">> }

Statuses == {200, 201, 204, 400, 401, 403, 404, 409, 500}

\* what Response.json() raises on a body that is not JSON: json.JSONDecodeError
\* itself (requests before 2.27) or the requests subclass of it
JsonExcs(text) ==
    IF json_loads(text).ok THEN {"none"}
    ELSE {"JSONDecodeError", "RequestsJSONDecodeError"}

TransportFailure ==
    [failed |-> TRUE, status_code |-> 0, text |-> <<>>, json_exc |-> "none"]

Responses ==
    {TransportFailure} \cup
    UNION { { [failed |-> FALSE, status_code |-> st, text |-> b, json_exc |-> e]
              : e \in JsonExcs(b) } : st \in Statuses, b \in Bodies }

\* a query-parameter mapping, as a caller of _request passes it
DirectionOut == JObj("direction" :> JStr("out"))

\* the direct calls of _request: an expected status no wrapper uses, with and
\* without query parameters
DirectCalls ==
    { [expected |-> 401, params |-> NoParams],
      [expected |-> 409, params |-> DirectionOut] }

(***************************************************************************)
(* State machine                                                           *)
(***************************************************************************)
NoCall == [op |-> "none"]

PublicOps ==
    { "get_projects", "create_project", "get_element", "create_element",
      "update_element", "delete_element", "get_owned_elements", "create_commit" }

ListOps == { "get_projects", "get_owned_elements" }

Init ==
    /\ args \in ClientArgs
    /\ client = NoClient
    /\ last = NoCall

InitCtor ==
    /\ args \in CtorArgs
    /\ client = NoClient
    /\ last = NoCall

Construct ==
    /\ last.op = "none"
    /\ LET r == SysMLV2Client_init(args.base_url, args.bearer_token) IN
       /\ client' = r.client
       /\ last' = [op |-> "__init__", raised |-> r.raised, message |-> r.message,
                   nreq |-> r.nreq]
    /\ UNCHANGED args

\* a variant of Called in which an authentication error drops the token
Called_dropsToken(op, expected, params, data, response, r) ==
    /\ last' = [op |-> op, expected |-> expected, params |-> params, data |-> data,
                resp |-> response, req |-> r.req, nreq |-> r.nreq, out |-> r.out]
    /\ client' = IF r.out.cls = "SysMLV2AuthError"
                 THEN [client EXCEPT !._session.headers.Authorization = <<>>]
                 ELSE client
    /\ UNCHANGED args

\* one call of an operation: the client is left alone, the call is recorded
Called(op, expected, params, data, response, r) ==
    /\ last' = [op |-> op, expected |-> expected, params |-> params, data |-> data,
                resp |-> response, req |-> r.req, nreq |-> r.nreq, out |-> r.out]
    /\ UNCHANGED <<args, client>>

CallGetProjects ==
    /\ client.exists
    /\ \E response \in Responses :
          Called("get_projects", 200, NoParams, PyNone, response,
                 get_projects(client, response))

CallCreateProject ==
    /\ client.exists
    /\ \E response \in Responses, d \in Datas :
          Called("create_project", 201, NoParams, d, response,
                 create_project(client, d, response))

CallGetElement ==
    /\ client.exists
    /\ \E response \in Responses, p \in ProjectIds, e \in ElementIds, c \in CommitIds :
          Called("get_element", 200, NoParams, PyNone, response,
                 get_element(client, p, e, c, response))

CallCreateElement ==
    /\ client.exists
    /\ \E response \in Responses, p \in ProjectIds, c \in CommitIds :
          Called("create_element", 201, NoParams, IdObject, response,
                 create_element(client, p, IdObject, c, response))

CallUpdateElement ==
    /\ client.exists
    /\ \E response \in Responses, p \in ProjectIds, e \in ElementIds, c \in CommitIds :
          Called("update_element", 200, NoParams, IdObject, response,
                 update_element(client, p, e, IdObject, c, response))

CallDeleteElement ==
    /\ client.exists
    /\ \E response \in Responses, p \in ProjectIds, e \in ElementIds, c \in CommitIds :
          Called("delete_element", 204, NoParams, PyNone, response,
                 delete_element(client, p, e, c, response))

CallGetOwnedElements ==
    /\ client.exists
    /\ \E response \in Responses, p \in ProjectIds, e \in ElementIds, c \in CommitIds :
          Called("get_owned_elements", 200, NoParams, PyNone, response,
                 get_owned_elements(client, p, e, c, response))

CallCreateCommit ==
    /\ client.exists
    /\ \E response \in Responses, p \in ProjectIds, d \in Datas :
          Called("create_commit", 201, NoParams, d, response,
                 create_commit(client, p, d, response))

\* the executor called directly, with an expected status no wrapper uses
CallRequest ==
    /\ client.exists
    /\ \E response \in Responses, c \in DirectCalls :
          Called("_request", c.expected, c.params, PyNone, response,
                 _request(client, "GET", <<"/projects">>, c.params, PyNone,
                          c.expected, response))

Next ==
    \/ Construct
    \/ CallGetProjects
    \/ CallCreateProject
    \/ CallGetElement
    \/ CallCreateElement
    \/ CallUpdateElement
    \/ CallDeleteElement
    \/ CallGetOwnedElements
    \/ CallCreateCommit
    \/ CallRequest

Spec == Init /\ [][Next]_vars

\* construction alone, over every constructor argument within the bounds
SpecCtor == InitCtor /\ [][Construct]_vars


(***************************************************************************)
(* Properties                                                              *)
(***************************************************************************)
IsCall    == last.op \in PublicOps \cup {"_request"}
Got(st)   == IsCall /\ ~last.resp.failed /\ last.resp.status_code = st
Raised(c) == last.out.kind = "raise" /\ last.out.cls = c /\ last.out.value = NoValue
Returned(x) == last.out.kind = "return" /\ last.out.value = x

WrappedBody ==
    <<"{", "\"elements\"", ":", "[", "{", "\"id\"", ":", "\"p1\"", "}", "]", "}">>
TruncatedBody == <<"{", "\"elements\"", ":", "[">>
ObjectBody == <<"{", "\"id\"", ":", "\"p1\"", "}">>

\* C1: whatever the operation, the expected status and the body, a response
\* with status 401 or 403 makes the call raise SysMLV2AuthError and return
\* nothing.
C1_AuthError ==
    (Got(401) \/ Got(403)) => Raised("SysMLV2AuthError")

C1_Witness ==
    /\ last.op = "create_project" /\ Got(403) /\ last.resp.text = ObjectBody
    /\ Raised("SysMLV2AuthError")

\* C2: whatever the operation (GET, POST, PUT or DELETE wrapper, list-normalized
\* or not), a response with status 404 makes the call raise
\* SysMLV2NotFoundError: not the generic SysMLV2APIError, and no value, in
\* particular no empty list.
C2_NotFound ==
    Got(404) => /\ Raised("SysMLV2NotFoundError")
                /\ last.out.status_code = 404

C2_Witness ==
    /\ last.op = "get_owned_elements" /\ Got(404) /\ last.resp.text = WrappedBody
    /\ Raised("SysMLV2NotFoundError")

\* C3: a response with status 400 makes every call raise
\* SysMLV2BadRequestError; its detail is the parsed body when the body is JSON
\* and the raw body text when it is not (never a decoding or network error).
C3_BadRequest ==
    Got(400) =>
        /\ Raised("SysMLV2BadRequestError")
        /\ json_loads(last.resp.text).ok =>
              /\ last.out.msg.detail.src = "json"
              /\ last.out.msg.detail.json = json_loads(last.resp.text).val
        /\ ~json_loads(last.resp.text).ok =>
              /\ last.out.msg.detail.src = "text"
              /\ last.out.msg.detail.text = last.resp.text
        /\ last.resp.text = ObjectBody =>
              last.out.msg.detail.json = JObj("id" :> JStr("p1"))
        /\ last.resp.text \in {<<>>, TruncatedBody} =>
              last.out.msg.detail.src = "text"

C3_Witness ==
    /\ last.op = "create_commit" /\ Got(400) /\ last.resp.text = TruncatedBody
    /\ last.resp.json_exc = "RequestsJSONDecodeError"
    /\ Raised("SysMLV2BadRequestError")
    /\ last.out.msg.detail.text = TruncatedBody

\* C4: the status-specific checks come before the expected-status check: a
\* response with status 409 raises SysMLV2ConflictError for every operation
\* and every expected status, also when 409 is the expected status; and no
\* call returns on a status of 400, 401, 403, 404 or 409 that it expected.
C4_ConflictFirst ==
    /\ Got(409) => Raised("SysMLV2ConflictError") /\ last.out.status_code = 409
    /\ (IsCall /\ ~last.resp.failed
        /\ last.resp.status_code \in {400, 401, 403, 404, 409})
           => last.out.kind = "raise"

C4_Witness ==
    /\ last.op = "_request" /\ last.expected = 409 /\ Got(409)
    /\ Raised("SysMLV2ConflictError")

\* C5: a response whose status is none of 400, 401, 403, 404, 409 and is not
\* the expected status raises the generic SysMLV2APIError whose status_code is
\* the status received; the body is carried as raw text, unparsed, and nothing
\* is returned.
C5_GenericAPIError ==
    (IsCall /\ ~last.resp.failed
     /\ last.resp.status_code \notin {400, 401, 403, 404, 409}
     /\ last.resp.status_code # last.expected)
        => /\ Raised("SysMLV2APIError")
           /\ last.out.status_code = last.resp.status_code
           /\ last.out.msg.text = last.resp.text
           /\ last.out.msg.detail = NoDetail

C5_Witness ==
    /\ last.op = "create_project" /\ Got(200) /\ last.expected = 201
    /\ last.resp.text = ObjectBody
    /\ Raised("SysMLV2APIError") /\ last.out.status_code = 200

\* C6: when a public operation gets its expected status and the status is 204
\* or the body is empty, it does not raise: a list-normalized operation
\* returns [], delete_element returns None, every other operation returns {}.
C6_EmptySuccess ==
    (last.op \in PublicOps /\ ~last.resp.failed
     /\ last.resp.status_code = last.expected
     /\ (last.resp.status_code = 204 \/ last.resp.text = <<>>))
        => /\ last.out.kind = "return"
           /\ last.op \in ListOps => last.out.value = EmptyList
           /\ last.op = "delete_element" => last.out.value = PyNone
           /\ last.op \notin ListOps \cup {"delete_element"}
                 => last.out.value = EmptyDict

C6_Witness ==
    /\ last.op = "get_projects" /\ Got(200) /\ last.resp.text = <<>>
    /\ Returned(EmptyList)

C8_AlwaysArray ==
    (last.op \in ListOps /\ last.out.kind = "return") => last.out.value.t = "arr"

\* the tokens of Tokens that are non-empty and start, in any case, with "Bearer "
ValidTokens ==
    { BearerX,
      <<"b", "e", "a", "r", "e", "r", " ", "x">>,
      <<"B", "E", "A", "R", "E", "R", " ", "x">>,
      <<"B", "e", "a", "r", "e", "r", " ">> }

InvalidArgs == args.base_url = <<>> \/ args.bearer_token \notin ValidTokens

\* C9, as claimed: a constructor call with an empty base_url or a bad
\* bearer_token raises an error that is a specialization of the root client
\* error, leaves no client and issues no request.
C9_Original ==
    (last.op = "__init__" /\ InvalidArgs)
        => /\ last.raised # "none"
           /\ issubclass(last.raised, "SysMLV2Error")
           /\ client = NoClient
           /\ last.nreq = 0

\* C9, amended: a constructor call with an empty base_url or a bad
\* bearer_token raises the built-in ValueError, which is no specialization of
\* SysMLV2Error; no client results and no request is issued; base_url is
\* checked first, so an empty base_url decides the message.
C9_ValueError ==
    (last.op = "__init__" /\ InvalidArgs)
        => /\ last.raised = "ValueError"
           /\ ~issubclass(last.raised, "SysMLV2Error")
           /\ client = NoClient
           /\ last.nreq = 0
           /\ args.base_url = <<>> => last.message = "base_url cannot be empty."
           /\ args.base_url # <<>> =>
                 last.message = "bearer_token must be provided and start with 'Bearer '."

C9_Witness ==
    /\ last.op = "__init__" /\ args.base_url = <<>>
    /\ args.bearer_token = <<"T", "o", "k", "e", "n", " ", "x">>
    /\ last.raised = "ValueError" /\ last.message = "base_url cannot be empty."
    /\ client = NoClient

StripOne(s) ==
    IF s # <<>> /\ s[Len(s)] = "/" THEN SubSeq(s, 1, Len(s) - 1) ELSE s

\* C10, as claimed: after a successful construction the stored base_url is the
\* given one with exactly one trailing "/" removed.
C10_Original ==
    (last.op = "__init__" /\ last.raised = "none")
        => client.base_url = StripOne(args.base_url)

\* C10, amended: after a successful construction the stored base_url is the
\* given one with all of its trailing "/" removed: it is the longest prefix
\* of the given base_url that does not end in "/".
C10_AllTrailingSlashes ==
    (last.op = "__init__" /\ last.raised = "none")
        => LET given  == args.base_url
               stored == client.base_url
           IN  /\ Len(stored) <= Len(given)
               /\ stored = SubSeq(given, 1, Len(stored))
               /\ \A i \in (Len(stored) + 1)..Len(given) : given[i] = "/"
               /\ stored # <<>> => stored[Len(stored)] # "/"

C10_Witness ==
    /\ last.op = "__init__" /\ last.raised = "none"
    /\ args.base_url = <<"h", "/", "/">>
    /\ client.base_url = <<"h">>


\* C11: every request any operation issues, whatever calls came before,
\* carries the headers fixed at construction: Authorization is the
\* bearer_token exactly as it was passed to the constructor, Content-Type and
\* Accept are application/json.
C11_FixedHeaders ==
    IsCall => /\ last.req.headers.Authorization = args.bearer_token
              /\ last.req.headers.Content_Type = "application/json"
              /\ last.req.headers.Accept = "application/json"

C11_Witness ==
    /\ last.op = "create_project" /\ Got(201)
    /\ args.bearer_token = <<"b", "e", "a", "r", "e", "r", " ", "x">>
    /\ last.req.headers.Authorization = <<"b", "e", "a", "r", "e", "r", " ", "x">>
    /\ last.req.headers.Content_Type = "application/json"


\* the create operations the source has
CreateOps == { "create_project", "create_commit" }

NameObject == JObj("name" :> JStr("x"))

\* C12, as claimed: the create operations expect status 200: on 200 they
\* return the parsed JSON body, on 201 they raise SysMLV2APIError with
\* status_code 201.
C12_Original ==
    last.op \in CreateOps =>
        /\ (Got(200) /\ last.resp.text = ObjectBody)
              => Returned(JObj("id" :> JStr("p1")))
        /\ Got(201) => Raised("SysMLV2APIError") /\ last.out.status_code = 201

\* C12, amended: create_project and create_commit expect status 201: on 201
\* with a JSON body they return the parsed body, on 200 they raise
\* SysMLV2APIError with status_code 200.
C12_Expect201 ==
    last.op \in CreateOps =>
        /\ (Got(201) /\ last.resp.text # <<>> /\ json_loads(last.resp.text).ok)
              => Returned(json_loads(last.resp.text).val)
        /\ (Got(201) /\ last.resp.text = ObjectBody)
              => Returned(JObj("id" :> JStr("p1")))
        /\ Got(200) => Raised("SysMLV2APIError") /\ last.out.status_code = 200

C12_Witness ==
    /\ last.op = "create_commit" /\ Got(200) /\ last.resp.text = WrappedBody
    /\ last.data = NameObject
    /\ Raised("SysMLV2APIError") /\ last.out.status_code = 200

\* C13: create_project and create_commit issue a POST whose body is the JSON
\* text of the data passed in, and on a 201 response holding a JSON object
\* they return that object.
C13_PostsData ==
    last.op \in CreateOps =>
        /\ last.req.method = "POST"
        /\ last.req.data.sent
        /\ json_loads(last.req.data.body).ok
        /\ json_loads(last.req.data.body).val = last.data
        /\ (Got(201) /\ last.resp.text = ObjectBody)
              => Returned(JObj("id" :> JStr("p1")))


ClientErrors ==
    { "SysMLV2Error", "SysMLV2AuthError", "SysMLV2APIError", "SysMLV2NotFoundError",
      "SysMLV2BadRequestError", "SysMLV2ConflictError" }

\* C14: every call of an operation issues exactly one HTTP request, whatever
\* its outcome (a returned value, a status error, a transport failure, a body
\* that is not JSON); a call either returns a value or raises one of the
\* client's error classes with no value.
C14_OneRequest ==
    IsCall =>
        /\ last.nreq = 1
        /\ last.out.kind \in {"return", "raise"}
        /\ last.out.kind = "raise" =>
              /\ last.out.cls \in ClientErrors
              /\ last.out.value = NoValue
        /\ last.out.kind = "return" =>
              /\ last.out.cls = "none"
              /\ last.out.value # NoValue
        /\ last.resp.failed => last.out.kind = "raise"

C14_Witness ==
    /\ last.op = "create_commit" /\ last.resp.failed
    /\ last.nreq = 1 /\ Raised("SysMLV2Error")

StatusErrors ==
    { "SysMLV2AuthError", "SysMLV2APIError", "SysMLV2NotFoundError",
      "SysMLV2BadRequestError", "SysMLV2ConflictError" }

\* C15: a call whose HTTP request fails without a response raises
\* SysMLV2Error, chained to the original exception and naming the full URL
\* (stored base_url followed by the endpoint); an error raised for a status
\* code is one of the five status classes, is not chained, and is never turned
\* into the network error.
C15_TransportError ==
    IsCall =>
        /\ last.resp.failed =>
              /\ Raised("SysMLV2Error")
              /\ last.out.msg.template = "Network error during request to"
              /\ last.out.msg.url = last.req.url
              /\ last.out.msg.cause = "ConnectionError"
              /\ last.op = "get_projects" => last.out.msg.url = <<"h", "/projects">>
        /\ (~last.resp.failed
            /\ (last.resp.status_code \in {400, 401, 403, 404, 409}
                \/ last.resp.status_code # last.expected)) =>
              /\ last.out.kind = "raise"
              /\ last.out.cls \in StatusErrors
              /\ last.out.msg.cause = "none"
              /\ last.out.msg.template # "Network error during request to"

C15_Witness ==
    /\ last.op = "get_element" /\ last.resp.failed
    /\ Raised("SysMLV2Error")
    /\ last.out.msg.url = <<"h", "/projects/", "p1", "/commits/", "main",
                            "/elements/", "e1">>
    /\ last.out.msg.cause = "ConnectionError"

\* C16: when a public operation gets its expected status, the status is not
\* 204 and the body is not empty and not JSON, it raises SysMLV2Error with a
\* message naming the URL and carrying the raw response text, and returns
\* nothing.
C16_DecodeError ==
    (last.op \in PublicOps /\ ~last.resp.failed
     /\ last.resp.status_code = last.expected /\ last.resp.status_code # 204
     /\ last.resp.text # <<>> /\ ~json_loads(last.resp.text).ok)
        => /\ Raised("SysMLV2Error")
           /\ last.out.msg.url = last.req.url
           /\ last.out.msg.text = last.resp.text


\* C17: _request sends the JSON text of the body whenever a body is passed,
\* an empty dict included, and sends no body only when none is passed; query
\* parameters that are passed go out with the request.
C17_BodyWhenProvided ==
    IsCall =>
        /\ last.data # PyNone =>
              /\ last.req.data.sent
              /\ json_loads(last.req.data.body).ok
              /\ json_loads(last.req.data.body).val = last.data
        /\ last.data = PyNone => ~last.req.data.sent
        /\ last.req.params = last.params


SameCall ==
    /\ last'.op = last.op
    /\ last'.expected = last.expected
    /\ last'.params = last.params
    /\ last'.data = last.data
    /\ last'.resp = last.resp

\* C18: no call changes the client: over any sequence of calls, returning or
\* raising, base_url, the bearer token and the headers stay what the
\* constructor made them; and a call repeated with the same arguments and the
\* same response issues the same request and has the same outcome as before.
C18_Stateless ==
    [][ /\ client.exists =>
              /\ client' = client
              /\ client'._bearer_token = args.bearer_token
              /\ client'._headers.Authorization = args.bearer_token
              /\ client'._session.headers = client'._headers
              /\ client'.base_url = <<"h">>
        /\ (IsCall /\ IsCall' /\ SameCall) =>
              /\ last'.out = last.out
              /\ last'.req = last.req
      ]_vars

C18_Witness ==
    /\ last.op = "get_projects" /\ Got(401) /\ Raised("SysMLV2AuthError")
    /\ client.exists
    /\ client._session.headers.Authorization = args.bearer_token
    /\ client.base_url = <<"h">>

====
